---- MODULE Spec2Model ----
(***************************************************************************)
(* pw-workflow-runner: WorkflowExecutor.execute and its two pollers        *)
(* (_poll_until_complete for batch workflows, _poll_session_ready for      *)
(* session workflows), src/src/pw_workflow_runner/executor.py.             *)
(*                                                                         *)
(* Time is counted in hundredths of a second since started_at, so `now`    *)
(* is what (datetime.utcnow() - started_at).total_seconds() returns.       *)
(* Float products are integer products divided by 100 (rounded down).      *)
(* Python's None is the value None below; `x or y` is Or(x, y).            *)
(*                                                                         *)
(* The second part models _run_tunnel and _start_ssh_tunnel of             *)
(* src/src/pw_workflow_runner/cli.py: the tunnel child process, the        *)
(* SIGINT handler and cleanup(). Its clock `tnow` counts seconds.          *)
(***************************************************************************)
EXTENDS Integers, Sequences, FiniteSets, TLC

VARIABLES
    cfg,            \* the executor's constructor arguments (self.timeout, ...)
    workflow_type,  \* execute(workflow_type=...)
    wait,           \* execute(wait=...)
    on_status,      \* TRUE when a notifier was passed to execute()
    pc,             \* "start", "poll" (top of the while loop), "sleep", "returned", "raised";
                    \* "cli" while run_workflow has not called execute() yet
    now,            \* clock, hundredths of a second since started_at
    interval,       \* the poller's local `interval` (pre-jitter basis)
    last_status,    \* the poller's local `last_status`
    session_url,    \* the session poller's local `session_url` (= redirect_url)
    run_number,     \* run_info.number of the submit response
    result,         \* the ExecutionResult returned by execute(), or NoResult
    exception,      \* the exception execute() raised, or NoException
    matched,        \* the SessionInfo the ready result was built from, or NoSession
    calls,          \* every client call made: [op, at, ret, err]
    observed,       \* the status each completed poll observed, in order
    notified,       \* each on_status(run_info, elapsed) call: [status, elapsed], in order
    iterations,     \* loop iterations begun
    sleeps          \* the duration of each time.sleep

vars == <<cfg, workflow_type, wait, on_status, pc, now, interval, last_status,
          session_url, run_number, result, exception, matched, calls, observed,
          notified, iterations, sleeps>>

VARIABLES
    pw_available,   \* TRUE when shutil.which("pw") finds the helper binary
    cancel_after,   \* _run_tunnel(cancel_after=...), seconds; 0 for None
    tpc,            \* position of the main flow in _run_tunnel: "idle", "start", "grace",
                    \* "loop", "wait", "cleanup", "returned", "exited"
    frames,         \* running cleanup() invocations, innermost last: [by, cancel_workflow,
                    \* phase, gone, nth]
    child,          \* tunnel_process: "none", "alive", "zombie" (exited, not waited for),
                    \* "reaped" (exited and waited for: the pid is gone)
    sub_alive,      \* TRUE while a sub-process of the child lives in its process group
    handler,        \* TRUE once signal.signal(signal.SIGINT, handle_sigint) ran
    established,    \* TRUE once "Tunnel established!" was printed
    tnow,           \* clock, seconds since _run_tunnel was entered
    start_time,     \* start_time of the auto-cancel wait loop
    interrupts,     \* SIGINTs delivered so far
    terminations,   \* termination sequences (cleanup up to "Tunnel closed.") finished
    tlog,           \* what cleanup() and the handler did, in order
    reported,       \* messages passed to print_error, in order
    exit_status     \* how the runner process ended: None, 0, 1 or an exception name

tvars == <<pw_available, cancel_after, tpc, frames, child, sub_alive, handler,
           established, tnow, start_time, interrupts, terminations, tlog, reported,
           exit_status>>

VARIABLES
    tunnel,         \* run_workflow(tunnel=...): --tunnel was given
    session_port,   \* run_workflow's local `session_port`; 0 for None
    sessions,       \* what get_sessions() returns: the registry, in its order
    lookup_pc,      \* "idle", "called" or "done": a get_session_for_run call
    found           \* what get_session_for_run returned: a session or NoSession

cvars == <<tunnel, session_port>>

lvars == <<sessions, lookup_pc, found>>

allvars == <<vars, tvars, cvars, lvars>>

-----------------------------------------------------------------------------
(* Bounds of the model *)

\* self.timeout of the modelled executor, in seconds
TimeoutSeconds == 25

-----------------------------------------------------------------------------
(* Values *)

None == "<None>"

\* bool(x) of an Optional[str]
Truthy(x) == x # None /\ x # ""

\* Python's `x or y`
Or(x, y) == IF Truthy(x) THEN x ELSE y

\* str.lower() on the status strings the remote system is modelled to send
Lower(s) ==
    CASE s = "Running"   -> "running"
      [] s = "RUNNING"   -> "running"
      [] s = "Completed" -> "completed"
      [] s = "COMPLETED" -> "completed"
      [] s = "Failed"    -> "failed"
      [] s = "FAILED"    -> "failed"
      [] s = "Cancelled" -> "cancelled"
      [] s = "ERROR"     -> "error"
      [] OTHER           -> s

BATCH == "batch"
SESSION == "session"

\* a terminal set that takes the session's ready status for a batch end
BatchTerminalStatusesWithRunning == {"completed", "failed", "cancelled", "error", "running"}

BATCH_TERMINAL_STATUSES == {"completed", "failed", "cancelled", "error"}
SESSION_READY_STATUS == "running"
SESSION_TERMINAL_STATUSES == {"failed", "cancelled", "error"}

-----------------------------------------------------------------------------
(* The remote system: what the client calls can return *)

\* RunInfo.status values returned by get_run_status
RunStatuses ==
    {"submitted", "pending", "running", "Running",
     "completed", "Completed", "COMPLETED", "failed", "Failed", "cancelled", "ERROR"}

\* SessionInfo.status values returned by get_session_for_run (Optional)
SessionStatuses ==
    {None, "starting", "completed",
     "running", "Running", "RUNNING", "failed", "FAILED", "Cancelled", "error"}

\* RunInfo.status of the submit response
SubmitStatuses == {"submitted", "Running"}

\* SessionInfo.external_href, SessionInfo.url
ExternalHrefs == {None, "", "https://host/x"}
SessionUrls == {None, "https://internal/x"}

\* SubmitResponse.redirect: None for batch workflows
Redirects(type) == IF type = SESSION THEN {None, "https://redirect/x"} ELSE {None}

RunNumbers == {41}

\* errors raised by the client (response.raise_for_status(), transport)
ClientErrors == {"HTTPStatusError", "ConnectError"}

\* the draws of random.random() are modelled by the jitter factor, in percent
Jitters == {90, 100, 109}

Min(a, b) == IF a <= b THEN a ELSE b

Last(s) == s[Len(s)]

-----------------------------------------------------------------------------
(* WorkflowExecutor.__init__ *)

DefaultTimeout == 360000
DefaultInitialPollInterval == 500
DefaultMaxPollInterval == 1000
DefaultBackoffFactor == 150

Configs ==
    {[timeout               |-> TimeoutSeconds * 100,
      initial_poll_interval |-> DefaultInitialPollInterval,
      max_poll_interval     |-> DefaultMaxPollInterval,
      backoff_factor        |-> DefaultBackoffFactor]}

\* constructor arguments the backoff is examined with: the default intervals,
\* an initial interval above the maximum, a backoff factor below 1 and a
\* backoff factor of 1, each with a timeout that allows a few polls
BackoffConfigs ==
    Configs \cup
    {[timeout |-> 1500, initial_poll_interval |-> 2000,
      max_poll_interval |-> 1000, backoff_factor |-> 150],
     [timeout |-> 1000, initial_poll_interval |-> 800,
      max_poll_interval |-> 1000, backoff_factor |-> 50],
     [timeout |-> 1000, initial_poll_interval |-> 400,
      max_poll_interval |-> 1000, backoff_factor |-> 100]}

\* time the submit call may take
SubmitLatencies(c) == {0, c.timeout, c.timeout + 1}

-----------------------------------------------------------------------------
(* ExecutionResult *)

ExecutionResult(type, number, status, completed, error_message, url) ==
    [workflow_type |-> type,
     run_number    |-> number,
     status        |-> status,
     completed_at  |-> completed,
     error_message |-> error_message,
     session_url   |-> url]

\* ExecutionResult.success
Success(r) ==
    IF r.workflow_type = SESSION
    THEN Lower(r.status) = "running"
    ELSE Lower(r.status) = "completed"

NoResult == [status |-> None]

\* ExecutionTimeout(f"... run #{run_number} timed out after {elapsed:.1f}s")
ExecutionTimeout(number, elapsed) ==
    [type |-> "ExecutionTimeout", run_number |-> number, elapsed |-> elapsed]

\* an error raised by the client, passing through execute()
ClientError(err) == [type |-> err]

NoException == [type |-> None]

SessionInfo(status, external_href, url) ==
    [status |-> status, external_href |-> external_href, url |-> url]

NoSession == [status |-> None]

\* one client call: the elapsed time it was made at, what it returned
\* ("run", "session", "None") or "raise", and the error it raised
Call(op, at, ret, err) == [op |-> op, at |-> at, ret |-> ret, err |-> err]

-----------------------------------------------------------------------------
(* The decisions of the two pollers *)

\* the timeout test one hundredth of a second late
TimedOutLate(elapsed) == elapsed > cfg.timeout + 1

\* if elapsed > self.timeout
TimedOut(elapsed) == elapsed > cfg.timeout

\* a notifier called on every poll
StatusChangedEveryPoll(status, last) == TRUE

\* run_info.status != last_status, current_status != last_status
StatusChanged(status, last) == status # last

\* "starting" notified only when nothing was observed before
StartingChangedOnlyFirst(last) == last = None

\* "starting" notified on every poll that finds no session
StartingChangedEveryPoll(last) == TRUE

\* last_status != "starting"
StartingChanged(last) == last # "starting"

\* the terminal test without str.lower()
BatchTerminalCaseSensitive(status) == status \in {"completed", "failed", "cancelled", "error"}

\* run_info.status.lower() in BATCH_TERMINAL_STATUSES
BatchTerminal(status) == Lower(status) \in BATCH_TERMINAL_STATUSES

\* the error message decided without str.lower()
BatchErrorMessageCaseSensitive(status) == IF status = "completed" THEN None ELSE status

\* error_message=None if run_info.status.lower() == "completed" else run_info.status
BatchErrorMessage(status) == IF Lower(status) = "completed" THEN None ELSE status

\* current_status = session_info.status or "unknown"
CurrentStatus(session_info) == Or(session_info.status, "unknown")

\* current_status.lower() in SESSION_TERMINAL_STATUSES
SessionFailed(status) == Lower(status) \in SESSION_TERMINAL_STATUSES

\* the ready test without str.lower()
SessionReadyCaseSensitive(status) == status = "running"

\* current_status.lower() == SESSION_READY_STATUS
SessionReady(status) == Lower(status) = SESSION_READY_STATUS

\* error_message=f"Session failed with status: {current_status}"
SessionErrorMessage(status) == "Session failed with status: " \o status

\* the internal URL preferred to the external endpoint
ActualSessionUrlInternalFirst(session_info, fallback) ==
    Or(Or(session_info.url, session_info.external_href), fallback)

\* session_info.external_href or session_info.url or session_url
ActualSessionUrl(session_info, fallback) ==
    Or(Or(session_info.external_href, session_info.url), fallback)

\* the sleep without the ceiling
SleepTimeUncapped(basis, jitter) == (basis * jitter) \div 100

\* the sleep with twice the jitter
SleepTimeWideJitter(basis, jitter) ==
    Min((basis * (2 * jitter - 100)) \div 100, cfg.max_poll_interval)

\* sleep_time = min(interval * jitter, self.max_poll_interval)
SleepTime(basis, jitter) == Min((basis * jitter) \div 100, cfg.max_poll_interval)

\* the backoff without the ceiling
NextIntervalUncapped(basis) == (basis * cfg.backoff_factor) \div 100

\* interval = min(interval * self.backoff_factor, self.max_poll_interval)
NextInterval(basis) == Min((basis * cfg.backoff_factor) \div 100, cfg.max_poll_interval)

\* on_status(run_info, elapsed), when a notifier was supplied and `changed` holds
Notify(status, elapsed, changed) ==
    notified' = IF on_status /\ changed
                THEN Append(notified, [status |-> status, elapsed |-> elapsed])
                ELSE notified

\* no tunnel was asked for: _run_tunnel is not entered
TunnelNotStarted ==
    /\ pw_available = TRUE
    /\ cancel_after = 0
    /\ tpc = "idle"
    /\ frames = <<>>
    /\ child = "none"
    /\ sub_alive = FALSE
    /\ handler = FALSE
    /\ established = FALSE
    /\ tnow = 0
    /\ start_time = 0
    /\ interrupts = 0
    /\ terminations = 0
    /\ tlog = <<>>
    /\ reported = <<>>
    /\ exit_status = None

\* get_session_for_run is not being called
LookupNotStarted ==
    /\ sessions = <<>>
    /\ lookup_pc = "idle"
    /\ found = NoSession

-----------------------------------------------------------------------------
Init ==
    /\ cfg \in Configs
    /\ workflow_type \in {BATCH, SESSION}
    /\ wait \in BOOLEAN
    /\ on_status \in BOOLEAN
    /\ pc = "start"
    /\ now = 0
    /\ interval = 0
    /\ last_status = None
    /\ session_url = None
    /\ run_number = 0
    /\ result = NoResult
    /\ exception = NoException
    /\ matched = NoSession
    /\ calls = <<>>
    /\ observed = <<>>
    /\ notified = <<>>
    /\ iterations = 0
    /\ sleeps = <<>>
    /\ TunnelNotStarted
    /\ tunnel = FALSE
    /\ session_port = 0
    /\ LookupNotStarted

\* execute(wait=True) without a notifier on an executor of BackoffConfigs
BackoffInit ==
    /\ cfg \in BackoffConfigs
    /\ workflow_type \in {BATCH, SESSION}
    /\ wait = TRUE
    /\ on_status = FALSE
    /\ pc = "start"
    /\ now = 0
    /\ interval = 0
    /\ last_status = None
    /\ session_url = None
    /\ run_number = 0
    /\ result = NoResult
    /\ exception = NoException
    /\ matched = NoSession
    /\ calls = <<>>
    /\ observed = <<>>
    /\ notified = <<>>
    /\ iterations = 0
    /\ sleeps = <<>>
    /\ TunnelNotStarted
    /\ tunnel = FALSE
    /\ session_port = 0
    /\ LookupNotStarted

-----------------------------------------------------------------------------
(* WorkflowExecutor.execute *)

\* submit_workflow returns and execute enters a poller whatever `wait` is
ExecuteAlwaysPolls ==
    /\ pc = "start"
    /\ \E latency \in SubmitLatencies(cfg), number \in RunNumbers,
          status \in SubmitStatuses, redirect_url \in Redirects(workflow_type) :
          /\ calls' = Append(calls, Call("submit_workflow", now, "run", None))
          /\ now' = now + latency
          /\ run_number' = number
          /\ interval' = cfg.initial_poll_interval
          /\ session_url' = IF workflow_type = SESSION THEN redirect_url ELSE None
          /\ pc' = "poll"
    /\ UNCHANGED <<cfg, workflow_type, wait, on_status, last_status, exception, result,
                   matched, observed, notified, iterations, sleeps>>
    /\ UNCHANGED <<tvars, cvars, lvars>>

\* submit_workflow returns; execute returns at once (wait=False) or enters a poller
Execute ==
    /\ pc = "start"
    /\ \E latency \in SubmitLatencies(cfg), number \in RunNumbers,
          status \in SubmitStatuses, redirect_url \in Redirects(workflow_type) :
          /\ calls' = Append(calls, Call("submit_workflow", now, "run", None))
          /\ now' = now + latency
          /\ run_number' = number
          /\ IF ~wait
             THEN /\ result' = ExecutionResult(workflow_type, number, status,
                                               None, None, redirect_url)
                  /\ pc' = "returned"
                  /\ UNCHANGED <<interval, session_url>>
             ELSE /\ interval' = cfg.initial_poll_interval
                  /\ session_url' = IF workflow_type = SESSION THEN redirect_url ELSE None
                  /\ pc' = "poll"
                  /\ UNCHANGED result
    /\ UNCHANGED <<cfg, workflow_type, wait, on_status, last_status, exception,
                   matched, observed, notified, iterations, sleeps>>
    /\ UNCHANGED <<tvars, cvars, lvars>>

\* submit_workflow raises
ExecuteSubmitFails ==
    /\ pc = "start"
    /\ \E err \in ClientErrors :
          /\ calls' = Append(calls, Call("submit_workflow", now, "raise", err))
          /\ exception' = ClientError(err)
    /\ pc' = "raised"
    /\ UNCHANGED <<cfg, workflow_type, wait, on_status, now, interval, last_status,
                   session_url, run_number, result, matched, observed, notified,
                   iterations, sleeps>>
    /\ UNCHANGED <<tvars, cvars, lvars>>

-----------------------------------------------------------------------------
(* Both pollers: the timeout test at the top of the loop, and the sleep *)

\* a poller that does not raise when the timeout has passed
PollTimeoutHangs ==
    /\ pc = "poll"
    /\ now > cfg.timeout
    /\ UNCHANGED allvars

PollTimeout ==
    /\ pc = "poll"
    /\ TimedOut(now)
    /\ iterations' = iterations + 1
    /\ exception' = ExecutionTimeout(run_number, now)
    /\ pc' = "raised"
    /\ UNCHANGED <<cfg, workflow_type, wait, on_status, now, interval, last_status,
                   session_url, run_number, result, matched, calls, observed,
                   notified, sleeps>>
    /\ UNCHANGED <<tvars, cvars, lvars>>

Sleep ==
    /\ pc = "sleep"
    /\ \E jitter \in Jitters :
          /\ sleeps' = Append(sleeps, SleepTime(interval, jitter))
          /\ now' = now + SleepTime(interval, jitter)
    /\ interval' = NextInterval(interval)
    /\ pc' = "poll"
    /\ UNCHANGED <<cfg, workflow_type, wait, on_status, last_status, session_url,
                   run_number, result, exception, matched, calls, observed,
                   notified, iterations>>
    /\ UNCHANGED <<tvars, cvars, lvars>>

-----------------------------------------------------------------------------
(* WorkflowExecutor._poll_until_complete: one loop iteration *)

PollBatch ==
    /\ pc = "poll"
    /\ workflow_type = BATCH
    /\ ~TimedOut(now)
    /\ iterations' = iterations + 1
    /\ \E status \in RunStatuses :
          /\ calls' = Append(calls, Call("get_run_status", now, "run", None))
          /\ observed' = Append(observed, status)
          /\ Notify(status, now, StatusChanged(status, last_status))
          /\ last_status' = status
          /\ IF BatchTerminal(status)
             THEN /\ result' = ExecutionResult(BATCH, run_number, status, now,
                                               BatchErrorMessage(status), None)
                  /\ pc' = "returned"
             ELSE /\ pc' = "sleep"
                  /\ UNCHANGED result
    /\ UNCHANGED <<cfg, workflow_type, wait, on_status, now, interval, session_url,
                   run_number, exception, matched, sleeps>>
    /\ UNCHANGED <<tvars, cvars, lvars>>

\* get_run_status raises and the poller swallows the error and polls again
PollBatchFailsRetried ==
    /\ pc = "poll"
    /\ workflow_type = BATCH
    /\ ~(now > cfg.timeout)
    /\ iterations' = iterations + 1
    /\ \E err \in ClientErrors :
          calls' = Append(calls, Call("get_run_status", now, "raise", err))
    /\ pc' = "sleep"
    /\ UNCHANGED <<cfg, workflow_type, wait, on_status, now, interval, last_status,
                   session_url, run_number, result, exception, matched, observed,
                   notified, sleeps>>
    /\ UNCHANGED <<tvars, cvars, lvars>>

\* get_run_status raises
PollBatchFails ==
    /\ pc = "poll"
    /\ workflow_type = BATCH
    /\ ~TimedOut(now)
    /\ iterations' = iterations + 1
    /\ \E err \in ClientErrors :
          /\ calls' = Append(calls, Call("get_run_status", now, "raise", err))
          /\ exception' = ClientError(err)
    /\ pc' = "raised"
    /\ UNCHANGED <<cfg, workflow_type, wait, on_status, now, interval, last_status,
                   session_url, run_number, result, matched, observed, notified,
                   sleeps>>
    /\ UNCHANGED <<tvars, cvars, lvars>>

-----------------------------------------------------------------------------
(* WorkflowExecutor._poll_session_ready: one loop iteration *)

\* get_session_for_run returns a session
PollSession ==
    /\ pc = "poll"
    /\ workflow_type = SESSION
    /\ ~TimedOut(now)
    /\ iterations' = iterations + 1
    /\ \E status \in SessionStatuses, external_href \in ExternalHrefs,
          url \in SessionUrls :
          LET session_info == SessionInfo(status, external_href, url)
              current_status == CurrentStatus(session_info)
          IN  /\ calls' = Append(calls, Call("get_session_for_run", now, "session", None))
              /\ observed' = Append(observed, current_status)
              /\ Notify(current_status, now, StatusChanged(current_status, last_status))
              /\ last_status' = current_status
              /\ IF SessionFailed(current_status)
                 THEN /\ result' = ExecutionResult(SESSION, run_number, current_status,
                                       now, SessionErrorMessage(current_status), None)
                      /\ pc' = "returned"
                      /\ UNCHANGED matched
                 ELSE IF SessionReady(current_status)
                 THEN /\ result' = ExecutionResult(SESSION, run_number, current_status,
                                       now, None,
                                       ActualSessionUrl(session_info, session_url))
                      /\ pc' = "returned"
                      /\ matched' = session_info
                 ELSE /\ pc' = "sleep"
                      /\ UNCHANGED <<result, matched>>
    /\ UNCHANGED <<cfg, workflow_type, wait, on_status, now, interval, session_url,
                   run_number, exception, sleeps>>
    /\ UNCHANGED <<tvars, cvars, lvars>>

\* get_session_for_run returns None
PollNoSession ==
    /\ pc = "poll"
    /\ workflow_type = SESSION
    /\ ~TimedOut(now)
    /\ iterations' = iterations + 1
    /\ calls' = Append(calls, Call("get_session_for_run", now, "None", None))
    /\ observed' = Append(observed, "starting")
    /\ Notify("starting", now, StartingChanged(last_status))
    /\ last_status' = "starting"
    /\ pc' = "sleep"
    /\ UNCHANGED <<cfg, workflow_type, wait, on_status, now, interval, session_url,
                   run_number, result, exception, matched, sleeps>>
    /\ UNCHANGED <<tvars, cvars, lvars>>

\* get_session_for_run raises
PollSessionFails ==
    /\ pc = "poll"
    /\ workflow_type = SESSION
    /\ ~TimedOut(now)
    /\ iterations' = iterations + 1
    /\ \E err \in ClientErrors :
          /\ calls' = Append(calls, Call("get_session_for_run", now, "raise", err))
          /\ exception' = ClientError(err)
    /\ pc' = "raised"
    /\ UNCHANGED <<cfg, workflow_type, wait, on_status, now, interval, last_status,
                   session_url, run_number, result, matched, observed, notified,
                   sleeps>>
    /\ UNCHANGED <<tvars, cvars, lvars>>

-----------------------------------------------------------------------------
Next ==
    \/ Execute
    \/ ExecuteSubmitFails
    \/ PollTimeout
    \/ Sleep
    \/ PollBatch
    \/ PollBatchFails
    \/ PollSession
    \/ PollNoSession
    \/ PollSessionFails

Spec == Init /\ [][Next]_allvars

BackoffSpec == BackoffInit /\ [][Next]_allvars

\* execute(wait=True) as a running process: the submit call and every poll
\* return or raise, every sleep returns, and the interpreter goes on to the
\* next statement
LiveSpec == BackoffInit /\ [][Next]_allvars /\ WF_allvars(Next)

-----------------------------------------------------------------------------
(* _run_tunnel: bounds and program constants *)

\* SIGINTs delivered during one run
MaxInterrupts == 2

\* the value of cancel_after when it is configured, in seconds
CancelAfterSeconds == 2

\* time.sleep(2) after the child was started
GraceSeconds == 2

\* tunnel_process.wait(timeout=5)
WaitTimeout == 5

\* time.sleep(1) in the auto-cancel wait loop
LoopSleepSeconds == 1

-----------------------------------------------------------------------------
(* _run_tunnel: values and decisions *)

\* some process of the child's process group is alive
GroupAlive == child = "alive" \/ sub_alive

\* one cleanup() invocation: who called it, its argument, where it is, whether
\* the whole group was gone and how many termination sequences had finished
\* when it began
Frame(by, cancel_workflow) ==
    [by |-> by, cancel_workflow |-> cancel_workflow, phase |-> "term",
     gone |-> ~GroupAlive, nth |-> terminations]

Top == frames[Len(frames)]

\* one entry of tlog, stamped with the clock and the state of the group
Event(ev, by, cause) ==
    [ev |-> ev, by |-> by, cause |-> cause, at |-> tnow, tpc |-> tpc, leader |-> child,
     live |-> GroupAlive, depth |-> Len(frames),
     gone |-> IF frames = <<>> THEN ~GroupAlive ELSE Top.gone,
     nth |-> IF frames = <<>> THEN terminations ELSE Top.nth]

\* the helper binary taken as present without looking
PwFoundAlways(available) == TRUE

\* if not shutil.which("pw")
PwFound(available) == available

\* except RuntimeError as e: print_error(str(e))
CaughtByRunTunnel(exc) == exc = "RuntimeError"

\* cleanup() without its except clauses
CaughtInCleanupNothing(exc) == FALSE

\* except (ProcessLookupError, OSError): pass
CaughtInCleanup(exc) == exc \in {"ProcessLookupError", "OSError"}

\* the cancel call outside any try block
CancelErrorCaughtNever(err) == FALSE

\* except Exception as e: print_error(f"Failed to cancel workflow: {e}")
CancelErrorCaught(err) == TRUE

\* the wait loop entered whether or not cancel_after was given
AutoCancelAlways == TRUE

\* if cancel_after: (also: start_time ... while ...)
AutoCancel == cancel_after # 0

\* the wait loop ending one second early
LoopContinuesShort(t) == t - start_time < cancel_after - 1

\* while time.time() - start_time < cancel_after
LoopContinues(t) == t - start_time < cancel_after

\* cleanup() that never cancels
CancelWantedNever(cancel_workflow) == FALSE

\* if cancel_workflow and client and workflow_name and run_number
CancelWanted(cancel_workflow) == cancel_workflow /\ run_number # 0

\* a handler that asks cleanup() to cancel
HandlerCancelWorkflowOn == TRUE

\* cleanup(cancel_workflow=False) in handle_sigint
HandlerCancelWorkflow == FALSE

\* cleanup(cancel_workflow=True) after the wait loop
AutoCancelWorkflow == TRUE

\* sys.exit(0 if result.success else 1)
ExitStatus(r) == IF Success(r) THEN "0" ELSE "1"

\* Popen.wait() without a timeout holds the Popen's wait lock while it blocks in
\* waitpid; a wait(timeout=...) made by a signal handler that interrupts it cannot
\* take the lock, never sees the child exit and ends in TimeoutExpired.
WaitpidLockHeld == tpc = "wait"

\* an exception nothing in _run_tunnel catches reaches run_workflow's
\* `except Exception`: print_error, sys.exit(1)
Escapes(exc) ==
    /\ tpc' = "exited"
    /\ frames' = <<>>
    /\ exit_status' = "1"
    /\ reported' = Append(reported, "Failed to run workflow: " \o exc)

\* the end of a cleanup() invocation whose termination sequence is over:
\* handle_sigint goes on to sys.exit(0), the auto-cancel path returns
Finish(frame) ==
    IF frame.by = "sigint"
    THEN /\ tpc' = "exited"
         /\ frames' = <<>>
         /\ exit_status' = "0"
    ELSE /\ tpc' = "returned"
         /\ frames' = <<>>
         /\ UNCHANGED exit_status

\* "Tunnel closed." was printed: on to the cancel call, or the invocation ends
Closed(frame) ==
    /\ terminations' = terminations + 1
    /\ IF CancelWanted(frame.cancel_workflow)
       THEN /\ frames' = [frames EXCEPT ![Len(frames)].phase = "cancel"]
            /\ UNCHANGED <<tpc, exit_status>>
       ELSE Finish(frame)

-----------------------------------------------------------------------------
(* _run_tunnel: the state run_workflow enters it in *)

\* a session run that execute() returned as running at its first poll
SessionReadyState ==
    /\ cfg \in Configs
    /\ workflow_type = SESSION
    /\ wait = TRUE
    /\ on_status = FALSE
    /\ pc = "returned"
    /\ now = 0
    /\ interval = cfg.initial_poll_interval
    /\ last_status = "running"
    /\ session_url = None
    /\ run_number \in RunNumbers
    /\ result = ExecutionResult(SESSION, run_number, "running", 0, None, None)
    /\ exception = NoException
    /\ matched = SessionInfo("running", None, None)
    /\ calls = <<Call("submit_workflow", 0, "run", None),
                 Call("get_session_for_run", 0, "session", None)>>
    /\ observed = <<"running">>
    /\ notified = <<>>
    /\ iterations = 1
    /\ sleeps = <<>>

\* session_info.local_port of a session that has one
SessionPorts == {8888}

TunnelInit ==
    /\ SessionReadyState
    /\ pw_available \in BOOLEAN
    /\ cancel_after \in {0, CancelAfterSeconds}
    /\ tpc = "start"
    /\ frames = <<>>
    /\ child = "none"
    /\ sub_alive = FALSE
    /\ handler = FALSE
    /\ established = FALSE
    /\ tnow = 0
    /\ start_time = 0
    /\ interrupts = 0
    /\ terminations = 0
    /\ tlog = <<>>
    /\ reported = <<>>
    /\ exit_status = None
    /\ tunnel = TRUE
    /\ session_port \in SessionPorts
    /\ LookupNotStarted

-----------------------------------------------------------------------------
(* _start_ssh_tunnel and the start of _run_tunnel *)

\* shutil.which("pw") finds nothing: RuntimeError, caught by _run_tunnel
StartTunnelFails ==
    /\ tpc = "start"
    /\ ~PwFound(pw_available)
    /\ IF CaughtByRunTunnel("RuntimeError")
       THEN /\ reported' = Append(reported, "pw CLI not found")
            /\ tpc' = "returned"
            /\ UNCHANGED <<frames, exit_status>>
       ELSE Escapes("pw CLI not found")
    /\ UNCHANGED <<pw_available, cancel_after, child, sub_alive, handler, established,
                   tnow, start_time, interrupts, terminations, tlog>>
    /\ UNCHANGED <<vars, cvars, lvars>>

\* subprocess.Popen(..., start_new_session=True): the child leads a new group
StartTunnel ==
    /\ tpc = "start"
    /\ PwFound(pw_available)
    /\ child' = "alive"
    /\ sub_alive' \in BOOLEAN
    /\ tpc' = "grace"
    /\ UNCHANGED <<pw_available, cancel_after, frames, handler, established, tnow,
                   start_time, interrupts, terminations, tlog, reported, exit_status>>
    /\ UNCHANGED <<vars, cvars, lvars>>

\* time.sleep(2) without the poll() test: an exited child is announced as an
\* established tunnel
GraceFailsEstablished ==
    /\ tpc = "grace"
    /\ child = "zombie"
    /\ tnow' = tnow + GraceSeconds
    /\ established' = TRUE
    /\ handler' = TRUE
    /\ start_time' = IF cancel_after # 0 THEN tnow' ELSE start_time
    /\ tpc' = IF cancel_after # 0 THEN "loop" ELSE "wait"
    /\ UNCHANGED <<pw_available, cancel_after, frames, child, sub_alive, interrupts,
                   terminations, tlog, reported, exit_status>>
    /\ UNCHANGED <<vars, cvars, lvars>>

\* time.sleep(2); tunnel_process.poll() is not None: failed to start, return
GraceFails ==
    /\ tpc = "grace"
    /\ child = "zombie"
    /\ tnow' = tnow + GraceSeconds
    /\ child' = "reaped"
    /\ reported' = Append(reported, "SSH tunnel failed to start")
    /\ tpc' = "returned"
    /\ UNCHANGED <<pw_available, cancel_after, frames, sub_alive, handler, established,
                   start_time, interrupts, terminations, tlog, exit_status>>
    /\ UNCHANGED <<vars, cvars, lvars>>

\* time.sleep(2); the child runs: "Tunnel established!", the handler is
\* installed, and the wait loop or the blocking wait begins
GraceEstablished ==
    /\ tpc = "grace"
    /\ child = "alive"
    /\ tnow' = tnow + GraceSeconds
    /\ established' = TRUE
    /\ handler' = TRUE
    /\ start_time' = IF AutoCancel THEN tnow' ELSE start_time
    /\ tpc' = IF AutoCancel THEN "loop" ELSE "wait"
    /\ UNCHANGED <<pw_available, cancel_after, frames, child, sub_alive, interrupts,
                   terminations, tlog, reported, exit_status>>
    /\ UNCHANGED <<vars, cvars, lvars>>

-----------------------------------------------------------------------------
(* SIGINT *)

\* SIGINT before signal.signal ran: KeyboardInterrupt at the interrupted
\* statement, which neither _run_tunnel nor run_workflow catches
InterruptBeforeHandler ==
    /\ tpc = "grace"
    /\ ~handler
    /\ interrupts < MaxInterrupts
    /\ interrupts' = interrupts + 1
    /\ tlog' = Append(tlog, Event("sigint", "sigint", "KeyboardInterrupt"))
    /\ tpc' = "exited"
    /\ exit_status' = "KeyboardInterrupt"
    /\ UNCHANGED <<pw_available, cancel_after, frames, child, sub_alive, handler,
                   established, tnow, start_time, terminations, reported>>
    /\ UNCHANGED <<vars, cvars, lvars>>

\* SIGINT with handle_sigint installed: the handler runs on top of whatever
\* the runner was doing and calls cleanup(cancel_workflow=False)
Interrupt ==
    /\ handler
    /\ tpc \in {"loop", "wait", "cleanup", "returned"}
    /\ interrupts < MaxInterrupts
    /\ interrupts' = interrupts + 1
    /\ tlog' = Append(tlog, Event("sigint", "sigint", "handle_sigint"))
    /\ frames' = Append(frames, Frame("sigint", HandlerCancelWorkflow))
    /\ UNCHANGED <<pw_available, cancel_after, tpc, child, sub_alive, handler,
                   established, tnow, start_time, terminations, reported, exit_status>>
    /\ UNCHANGED <<vars, cvars, lvars>>

-----------------------------------------------------------------------------
(* The auto-cancel wait loop and the blocking wait *)

\* the loop condition fails: cleanup(cancel_workflow=True)
LoopDeadline ==
    /\ tpc = "loop"
    /\ frames = <<>>
    /\ ~LoopContinues(tnow)
    /\ tlog' = Append(tlog, Event("cleanup", "auto", "deadline"))
    /\ frames' = <<Frame("auto", AutoCancelWorkflow)>>
    /\ tpc' = "cleanup"
    /\ UNCHANGED <<pw_available, cancel_after, child, sub_alive, handler, established,
                   tnow, start_time, interrupts, terminations, reported, exit_status>>
    /\ UNCHANGED <<vars, cvars, lvars>>

\* tunnel_process.poll() is not None: break, cleanup(cancel_workflow=True)
LoopTunnelDied ==
    /\ tpc = "loop"
    /\ frames = <<>>
    /\ LoopContinues(tnow)
    /\ child = "zombie"
    /\ child' = "reaped"
    /\ tlog' = Append(tlog, Event("cleanup", "auto", "died"))
    /\ frames' = <<[Frame("auto", AutoCancelWorkflow) EXCEPT !.gone = ~sub_alive]>>
    /\ tpc' = "cleanup"
    /\ UNCHANGED <<pw_available, cancel_after, sub_alive, handler, established, tnow,
                   start_time, interrupts, terminations, reported, exit_status>>
    /\ UNCHANGED <<vars, cvars, lvars>>

\* the child runs: time.sleep(1)
LoopSleep ==
    /\ tpc = "loop"
    /\ frames = <<>>
    /\ LoopContinues(tnow)
    /\ child = "alive"
    /\ tnow' = tnow + LoopSleepSeconds
    /\ UNCHANGED <<pw_available, cancel_after, tpc, frames, child, sub_alive, handler,
                   established, start_time, interrupts, terminations, tlog, reported,
                   exit_status>>
    /\ UNCHANGED <<vars, cvars, lvars>>

\* no cancel_after: tunnel_process.wait() returns when the child has exited
WaitReturns ==
    /\ tpc = "wait"
    /\ frames = <<>>
    /\ child = "zombie"
    /\ child' = "reaped"
    /\ tpc' = "returned"
    /\ UNCHANGED <<pw_available, cancel_after, frames, sub_alive, handler, established,
                   tnow, start_time, interrupts, terminations, tlog, reported,
                   exit_status>>
    /\ UNCHANGED <<vars, cvars, lvars>>

\* run_workflow after _run_tunnel returned: sys.exit(0 if result.success else 1)
RunWorkflowExit ==
    /\ tpc = "returned"
    /\ frames = <<>>
    /\ tpc' = "exited"
    /\ exit_status' = ExitStatus(result)
    /\ UNCHANGED <<pw_available, cancel_after, frames, child, sub_alive, handler,
                   established, tnow, start_time, interrupts, terminations, tlog,
                   reported>>
    /\ UNCHANGED <<vars, cvars, lvars>>

-----------------------------------------------------------------------------
(* cleanup(): the innermost invocation runs *)

\* os.killpg(os.getpgid(tunnel_process.pid), signal.SIGTERM); getpgid raises
\* ProcessLookupError once the child was waited for
CleanupTerm ==
    /\ frames # <<>>
    /\ Top.phase = "term"
    /\ IF child = "reaped"
       THEN IF CaughtInCleanup("ProcessLookupError")
            THEN /\ tlog' = Append(tlog, Event("lookup_failed", Top.by, "SIGTERM"))
                 /\ frames' = [frames EXCEPT ![Len(frames)].phase = "wait"]
                 /\ UNCHANGED <<tpc, exit_status, reported>>
            ELSE /\ tlog' = Append(tlog, Event("raised", Top.by, "ProcessLookupError"))
                 /\ Escapes("ProcessLookupError")
       ELSE /\ tlog' = Append(tlog, Event("SIGTERM", Top.by, None))
            /\ frames' = [frames EXCEPT ![Len(frames)].phase = "wait"]
            /\ UNCHANGED <<tpc, exit_status, reported>>
    /\ UNCHANGED <<pw_available, cancel_after, child, sub_alive, handler, established,
                   tnow, start_time, interrupts, terminations>>
    /\ UNCHANGED <<vars, cvars, lvars>>

\* tunnel_process.wait(timeout=5) returns: the child has exited
CleanupWaitReturns ==
    /\ frames # <<>>
    /\ Top.phase = "wait"
    /\ ~WaitpidLockHeld
    /\ child \in {"zombie", "reaped"}
    /\ child' = "reaped"
    /\ tlog' = Append(tlog, Event("wait_returned", Top.by, None))
    /\ Closed(Top)
    /\ UNCHANGED <<pw_available, cancel_after, sub_alive, handler, established, tnow,
                   start_time, interrupts, reported>>
    /\ UNCHANGED <<vars, cvars, lvars>>

\* tunnel_process.wait() without a timeout: blocked while the child runs
CleanupWaitHangs ==
    /\ frames # <<>>
    /\ Top.phase = "wait"
    /\ WaitpidLockHeld \/ child = "alive"
    /\ UNCHANGED allvars

\* tunnel_process.wait(timeout=5) raises TimeoutExpired:
\* os.killpg(os.getpgid(tunnel_process.pid), signal.SIGKILL)
CleanupWaitTimeout ==
    /\ frames # <<>>
    /\ Top.phase = "wait"
    /\ WaitpidLockHeld \/ child = "alive"
    /\ tnow' = tnow + WaitTimeout
    /\ tlog' = tlog \o
           <<[Event("wait_timeout", Top.by, None) EXCEPT !.at = tnow'],
             [Event(IF child = "reaped" THEN "lookup_failed" ELSE "SIGKILL",
                    Top.by, "SIGKILL") EXCEPT !.at = tnow']>>
    /\ child' = IF child = "alive" THEN "zombie" ELSE child
    /\ sub_alive' = IF child = "reaped" THEN sub_alive ELSE FALSE
    /\ Closed(Top)
    /\ UNCHANGED <<pw_available, cancel_after, handler, established, start_time,
                   interrupts, reported>>
    /\ UNCHANGED <<vars, cvars, lvars>>

\* client.cancel_run(workflow_name, run_number) is called
CancelRunStart ==
    /\ frames # <<>>
    /\ Top.phase = "cancel"
    /\ tlog' = Append(tlog, Event("cancel", Top.by, None))
    /\ frames' = [frames EXCEPT ![Len(frames)].phase = "cancelling"]
    /\ UNCHANGED <<pw_available, cancel_after, tpc, child, sub_alive, handler,
                   established, tnow, start_time, interrupts, terminations, reported,
                   exit_status>>
    /\ UNCHANGED <<vars, cvars, lvars>>

\* cancel_run returns: "Workflow cancelled."
CancelRunOk ==
    /\ frames # <<>>
    /\ Top.phase = "cancelling"
    /\ tlog' = Append(tlog, Event("cancel_ok", Top.by, None))
    /\ Finish(Top)
    /\ UNCHANGED <<pw_available, cancel_after, child, sub_alive, handler, established,
                   tnow, start_time, interrupts, terminations, reported>>
    /\ UNCHANGED <<vars, cvars, lvars>>

\* cancel_run raises: print_error("Failed to cancel workflow: ...")
CancelRunFails ==
    /\ frames # <<>>
    /\ Top.phase = "cancelling"
    /\ \E err \in ClientErrors :
          /\ tlog' = Append(tlog, Event("cancel_failed", Top.by, err))
          /\ IF CancelErrorCaught(err)
             THEN /\ reported' = Append(reported, "Failed to cancel workflow: " \o err)
                  /\ Finish(Top)
             ELSE Escapes(err)
    /\ UNCHANGED <<pw_available, cancel_after, child, sub_alive, handler, established,
                   tnow, start_time, interrupts, terminations>>
    /\ UNCHANGED <<vars, cvars, lvars>>

-----------------------------------------------------------------------------
(* The processes of the child's group *)

\* the tunnel child exits: on its own, or because a signal reached it
ChildExits ==
    /\ child = "alive"
    /\ tpc # "exited"
    /\ child' = "zombie"
    /\ UNCHANGED <<pw_available, cancel_after, tpc, frames, sub_alive, handler,
                   established, tnow, start_time, interrupts, terminations, tlog,
                   reported, exit_status>>
    /\ UNCHANGED <<vars, cvars, lvars>>

\* the sub-processes of the child exit
SubExits ==
    /\ sub_alive
    /\ tpc # "exited"
    /\ sub_alive' = FALSE
    /\ UNCHANGED <<pw_available, cancel_after, tpc, frames, child, handler,
                   established, tnow, start_time, interrupts, terminations, tlog,
                   reported, exit_status>>
    /\ UNCHANGED <<vars, cvars, lvars>>

-----------------------------------------------------------------------------
TunnelNext ==
    \/ StartTunnelFails
    \/ StartTunnel
    \/ GraceFails
    \/ GraceEstablished
    \/ InterruptBeforeHandler
    \/ Interrupt
    \/ LoopDeadline
    \/ LoopTunnelDied
    \/ LoopSleep
    \/ WaitReturns
    \/ RunWorkflowExit
    \/ CleanupTerm
    \/ CleanupWaitReturns
    \/ CleanupWaitTimeout
    \/ CancelRunStart
    \/ CancelRunOk
    \/ CancelRunFails
    \/ ChildExits
    \/ SubExits

TunnelSpec == TunnelInit /\ [][TunnelNext]_allvars

\* the steps the runner takes itself; SIGINT and the exits of the child and
\* of its sub-processes are up to the environment
TunnelSteps ==
    \/ StartTunnelFails
    \/ StartTunnel
    \/ GraceFails
    \/ GraceEstablished
    \/ LoopDeadline
    \/ LoopTunnelDied
    \/ LoopSleep
    \/ WaitReturns
    \/ RunWorkflowExit
    \/ CleanupTerm
    \/ CleanupWaitReturns
    \/ CleanupWaitTimeout
    \/ CancelRunStart
    \/ CancelRunOk
    \/ CancelRunFails

\* _run_tunnel as a running process: sleeps and timed waits return, signals
\* are sent, cancel_run returns or raises
TunnelLiveSpec == TunnelInit /\ [][TunnelNext]_allvars /\ WF_allvars(TunnelSteps)

-----------------------------------------------------------------------------
(* run_workflow: from the command line to the spawn of the tunnel child *)

\* run_workflow without the test of --tunnel against --type
TunnelAllowedAlways == TRUE

\* if tunnel and wf_type != WorkflowType.SESSION: print_error, sys.exit(1)
TunnelAllowed == ~(tunnel /\ workflow_type # SESSION)

\* if tunnel and result.success and wf_type == WorkflowType.SESSION
TunnelWanted == tunnel /\ Success(result) /\ workflow_type = SESSION

\* elif cancel_after and result.success
CancelWithoutTunnel == cancel_after # 0 /\ Success(result)

\* run_workflow was invoked with its options parsed and its inputs built
RunInit ==
    /\ cfg \in Configs
    /\ workflow_type \in {BATCH, SESSION}
    /\ wait \in BOOLEAN
    /\ on_status = FALSE
    /\ pc = "cli"
    /\ now = 0
    /\ interval = 0
    /\ last_status = None
    /\ session_url = None
    /\ run_number = 0
    /\ result = NoResult
    /\ exception = NoException
    /\ matched = NoSession
    /\ calls = <<>>
    /\ observed = <<>>
    /\ notified = <<>>
    /\ iterations = 0
    /\ sleeps = <<>>
    /\ pw_available \in BOOLEAN
    /\ cancel_after \in {0, CancelAfterSeconds}
    /\ tpc = "idle"
    /\ frames = <<>>
    /\ child = "none"
    /\ sub_alive = FALSE
    /\ handler = FALSE
    /\ established = FALSE
    /\ tnow = 0
    /\ start_time = 0
    /\ interrupts = 0
    /\ terminations = 0
    /\ tlog = <<>>
    /\ reported = <<>>
    /\ exit_status = None
    /\ tunnel \in BOOLEAN
    /\ session_port = 0
    /\ LookupNotStarted

\* --tunnel without --type session: print_error, sys.exit(1)
RejectTunnel ==
    /\ pc = "cli"
    /\ tpc = "idle"
    /\ ~TunnelAllowed
    /\ reported' = Append(reported, "--tunnel can only be used with --type session")
    /\ tpc' = "exited"
    /\ exit_status' = "1"
    /\ UNCHANGED <<pw_available, cancel_after, frames, child, sub_alive, handler,
                   established, tnow, start_time, interrupts, terminations, tlog>>
    /\ UNCHANGED <<vars, cvars, lvars>>

\* with PWClient() as client: executor = WorkflowExecutor(...); executor.execute(...)
CallExecute ==
    /\ pc = "cli"
    /\ tpc = "idle"
    /\ TunnelAllowed
    /\ pc' = "start"
    /\ UNCHANGED <<cfg, workflow_type, wait, on_status, now, interval, last_status,
                   session_url, run_number, result, exception, matched, calls,
                   observed, notified, iterations, sleeps>>
    /\ UNCHANGED <<tvars, cvars, lvars>>

\* execute() raised: except PWClientError / ExecutionTimeout: print_error, sys.exit(1)
ExecuteRaised ==
    /\ pc = "raised"
    /\ tpc = "idle"
    /\ reported' = Append(reported, exception.type)
    /\ tpc' = "exited"
    /\ exit_status' = "1"
    /\ UNCHANGED <<pw_available, cancel_after, frames, child, sub_alive, handler,
                   established, tnow, start_time, interrupts, terminations, tlog>>
    /\ UNCHANGED <<vars, cvars, lvars>>

\* client.get_session_for_run(workflow_name, result.run_number) for the port:
\* a session with a local_port lets _run_tunnel begin, anything else is
\* "Could not detect session port" and sys.exit(1)
DetectSessionPort ==
    /\ pc = "returned"
    /\ tpc = "idle"
    /\ TunnelWanted
    /\ \E port \in {0} \cup SessionPorts :
          IF port # 0
          THEN /\ session_port' = port
               /\ tpc' = "start"
               /\ UNCHANGED <<reported, exit_status>>
          ELSE /\ reported' = Append(reported, "Could not detect session port")
               /\ tpc' = "exited"
               /\ exit_status' = "1"
               /\ UNCHANGED session_port
    /\ UNCHANGED <<pw_available, cancel_after, frames, child, sub_alive, handler,
                   established, tnow, start_time, interrupts, terminations, tlog>>
    /\ UNCHANGED <<vars, tunnel, lvars>>

\* get_session_for_run raises: except PWClientError: print_error, sys.exit(1)
DetectSessionPortFails ==
    /\ pc = "returned"
    /\ tpc = "idle"
    /\ TunnelWanted
    /\ \E err \in ClientErrors : reported' = Append(reported, err)
    /\ tpc' = "exited"
    /\ exit_status' = "1"
    /\ UNCHANGED <<pw_available, cancel_after, frames, child, sub_alive, handler,
                   established, tnow, start_time, interrupts, terminations, tlog>>
    /\ UNCHANGED <<vars, cvars, lvars>>

\* no tunnel: with cancel_after and a successful run, sleep and cancel_run;
\* then sys.exit(0 if result.success else 1)
ExitWithoutTunnel ==
    /\ pc = "returned"
    /\ tpc = "idle"
    /\ ~TunnelWanted
    /\ IF CancelWithoutTunnel
       THEN /\ tnow' = tnow + cancel_after
            /\ tlog' = Append(tlog, [Event("cancel", "run_workflow", None)
                                        EXCEPT !.at = tnow'])
       ELSE UNCHANGED <<tnow, tlog>>
    /\ tpc' = "exited"
    /\ exit_status' = ExitStatus(result)
    /\ UNCHANGED <<pw_available, cancel_after, frames, child, sub_alive, handler,
                   established, start_time, interrupts, terminations, reported>>
    /\ UNCHANGED <<vars, cvars, lvars>>

\* the run up to the moment the tunnel child exists or the runner is done
RunNext ==
    \/ RejectTunnel
    \/ CallExecute
    \/ Execute
    \/ ExecuteSubmitFails
    \/ PollTimeout
    \/ Sleep
    \/ PollBatch
    \/ PollBatchFails
    \/ PollSession
    \/ PollNoSession
    \/ PollSessionFails
    \/ ExecuteRaised
    \/ DetectSessionPort
    \/ DetectSessionPortFails
    \/ ExitWithoutTunnel
    \/ StartTunnelFails
    \/ StartTunnel
    \/ RunWorkflowExit

RunSpec == RunInit /\ [][RunNext]_allvars

-----------------------------------------------------------------------------
(* PWClient.get_session_for_run *)

\* sessions in the registry returned by get_sessions()
MaxSessions == 3

\* the workflow_name argument of the lookup
WorkflowName == "wf"

\* SessionInfo.workflow_run: None, or a run with its number and its
\* workflow_name, which the API may leave None
NoWorkflowRun == [none |-> TRUE]

WorkflowRuns ==
    {NoWorkflowRun} \cup
    [number : {41, 42}, workflow_name : {None, "", WorkflowName, "other"}]

\* the registries of n sessions; a session's id is its place in the registry
RegistriesOfLen(n) ==
    {[i \in 1..n |-> [id |-> i, workflow_run |-> f[i]]] : f \in [1..n -> WorkflowRuns]}

Registries == UNION {RegistriesOfLen(n) : n \in 0..MaxSessions}

\* a lookup that matches on the run number alone
MatchesRunNumberOnly(session, workflow_name, number) ==
    /\ session.workflow_run # NoWorkflowRun
    /\ session.workflow_run.number = number

\* if session.workflow_run and session.workflow_run.number == run_number:
\*     if session.workflow_run.workflow_name is None or ... == workflow_name: return session
Matches(session, workflow_name, number) ==
    /\ session.workflow_run # NoWorkflowRun
    /\ session.workflow_run.number = number
    /\ \/ session.workflow_run.workflow_name = None
       \/ session.workflow_run.workflow_name = workflow_name

\* for session in sessions: ... return session; return None
RECURSIVE GetSessionForRun(_, _, _)
GetSessionForRun(ss, workflow_name, number) ==
    IF ss = <<>> THEN NoSession
    ELSE IF Matches(Head(ss), workflow_name, number) THEN Head(ss)
    ELSE GetSessionForRun(Tail(ss), workflow_name, number)

\* run_workflow looks up the session of the run execute() returned as ready
LookupInit ==
    /\ SessionReadyState
    /\ TunnelNotStarted
    /\ tunnel = TRUE
    /\ session_port = 0
    /\ sessions \in Registries
    /\ lookup_pc = "called"
    /\ found = NoSession

\* get_sessions() returned the registry: the loop runs and the call returns
GetSessionForRunReturns ==
    /\ lookup_pc = "called"
    /\ found' = GetSessionForRun(sessions, WorkflowName, run_number)
    /\ lookup_pc' = "done"
    /\ UNCHANGED <<sessions, vars, tvars, cvars>>

\* get_sessions() raises (response.raise_for_status())
GetSessionForRunFails ==
    /\ lookup_pc = "called"
    /\ lookup_pc' = "raised"
    /\ UNCHANGED <<sessions, found, vars, tvars, cvars>>

LookupNext ==
    \/ GetSessionForRunReturns
    \/ GetSessionForRunFails

LookupSpec == LookupInit /\ [][LookupNext]_allvars

-----------------------------------------------------------------------------
(* Properties *)

\* the status/session queries made so far (every call after the submit)
Polls == SubSeq(calls, 2, Len(calls))

\* the statuses passed to the notifier, in order
NotifiedStatuses == [k \in 1..Len(notified) |-> notified[k].status]

\* TRUE when on_status was called during the poll made at `elapsed`
NotifiedAt(elapsed) == \E k \in 1..Len(notified) : notified[k].elapsed = elapsed

\* s with every run of consecutive equal elements collapsed to one
RECURSIVE Collapse(_)
Collapse(s) ==
    IF Len(s) <= 1 THEN s
    ELSE LET front == Collapse(SubSeq(s, 1, Len(s) - 1))
         IN  IF s[Len(s)] = s[Len(s) - 1] THEN front ELSE Append(front, s[Len(s)])

\* how often v occurs in s
Count(s, v) == Cardinality({k \in 1..Len(s) : s[k] = v})

\* C1: with wait=True, execute() has at most one outcome (a result, or a raised
\* ExecutionTimeout or client error), an ended call has exactly one, and a
\* returned result carries the last observed status, whose lower-case form is
\* completed/failed/cancelled/error (batch) or running/failed/cancelled/error
\* (session).
C1_OneOutcomeTerminalStatus ==
    wait =>
      /\ (pc = "returned") <=> (result # NoResult)
      /\ (pc = "raised") <=> (exception # NoException)
      /\ ~(result # NoResult /\ exception # NoException)
      /\ exception.type \in {None, "ExecutionTimeout"} \cup ClientErrors
      /\ pc = "returned" =>
            /\ observed # <<>>
            /\ result.status = Last(observed)
            /\ result.workflow_type = workflow_type
            /\ Lower(result.status) \in
                  (IF workflow_type = BATCH
                   THEN {"completed", "failed", "cancelled", "error"}
                   ELSE {"running", "failed", "cancelled", "error"})

C1_Witness ==
    /\ wait
    /\ pc = "returned"
    /\ workflow_type = SESSION
    /\ observed = <<"starting", "completed", "Running">>
    /\ result.status = "Running"

\* C2: every status/session query is made at an elapsed time <= timeout; each
\* loop iteration either raises ExecutionTimeout (elapsed > timeout, carrying
\* the run number) or makes exactly one query; at the top of the loop with
\* elapsed > timeout only the timeout can happen, and nothing follows a raise.
C2_TimeoutBeforeQuery ==
    /\ \A i \in 1..Len(Polls) : Polls[i].at <= cfg.timeout
    /\ Len(Polls) = iterations - (IF exception.type = "ExecutionTimeout" THEN 1 ELSE 0)
    /\ exception.type = "ExecutionTimeout" =>
          /\ exception.elapsed > cfg.timeout
          /\ exception.run_number = run_number
    /\ pc = "poll" /\ now > cfg.timeout =>
          /\ ENABLED PollTimeout
          /\ ~ENABLED (PollBatch \/ PollBatchFails \/ PollSession
                         \/ PollNoSession \/ PollSessionFails)
    /\ pc = "poll" /\ now <= cfg.timeout =>
          /\ ~ENABLED PollTimeout
          /\ ENABLED (PollBatch \/ PollSession)
    /\ pc = "raised" => ~ENABLED Next

C2_Witness ==
    /\ exception.type = "ExecutionTimeout"
    /\ Len(Polls) = 1
    /\ Polls[1].at = cfg.timeout

C4_EachValueAtMostOnce ==
    \A i, j \in 1..Len(notified) :
        notified[i].status = notified[j].status => i = j

\* C4 amended: the notifier is never passed the same status string twice in a
\* row, and a status string is notified at most as often as it starts a run of
\* consecutive identical observations.
C4_AtMostOncePerRun ==
    /\ \A i \in 1..(Len(notified) - 1) : notified[i].status # notified[i + 1].status
    /\ \A v \in {observed[k] : k \in 1..Len(observed)} :
          Count(NotifiedStatuses, v) <= Count(Collapse(observed), v)

C4_Witness ==
    /\ on_status
    /\ observed = <<"running", "pending", "running">>
    /\ NotifiedStatuses = <<"running", "pending", "running">>

\* C5 as claimed: the notifier decision compares lower-cased statuses, so two
\* notifications in a row never carry statuses that differ only in letter case.
C5_CaseFoldedNotification ==
    \A i \in 1..(Len(notified) - 1) :
        Lower(notified[i].status) # Lower(notified[i + 1].status)

\* C6: a poll ends the poller exactly when the lower-cased observed status is
\* terminal for the workflow type, whatever its letter case, and success is
\* decided by the lower-cased status alone.
C6_TerminalByFoldedStatus ==
    /\ \A i \in 1..Len(observed) :
          (i = Len(observed) /\ pc = "returned")
             <=> Lower(observed[i]) \in
                   (IF workflow_type = BATCH
                    THEN {"completed", "failed", "cancelled", "error"}
                    ELSE {"running", "failed", "cancelled", "error"})
    /\ wait /\ pc = "returned" =>
          (Success(result) <=>
              Lower(result.status) = (IF workflow_type = BATCH THEN "completed"
                                                               ELSE "running"))

C6_Witness ==
    /\ pc = "returned"
    /\ workflow_type = BATCH
    /\ observed = <<"Running", "COMPLETED">>
    /\ Success(result)

\* C7: an observed failed/cancelled/error status ends execute() with a returned
\* unsuccessful result that carries an error message, never with an exception,
\* and a result returned with wait=True has no error message exactly when it is
\* successful.
C7_FailureIsAResult ==
    /\ wait /\ pc = "returned" => ((result.error_message = None) <=> Success(result))
    /\ (observed # <<>> /\ Lower(Last(observed)) \in {"failed", "cancelled", "error"}) =>
          /\ pc = "returned"
          /\ exception = NoException
          /\ result.status = Last(observed)
          /\ ~Success(result)
          /\ result.error_message # None

C7_Witness ==
    /\ pc = "returned"
    /\ workflow_type = SESSION
    /\ result.status = "Cancelled"
    /\ result.error_message = "Session failed with status: Cancelled"

\* C8 as claimed: a poll that finds no session is status "starting", does not
\* return, and the notifier is called with "starting" on the first poll of
\* every run of consecutive no-session polls.
C8_StartingOnFirstNoSessionPoll ==
    on_status =>
      \A i \in 1..Len(observed) :
          (Polls[i].ret = "None" /\ (i = 1 \/ Polls[i - 1].ret # "None")) =>
              \E k \in 1..Len(notified) :
                  notified[k] = [status |-> "starting", elapsed |-> Polls[i].at]

\* C8 amended: a poll that finds no session is observed as "starting" and never
\* ends the poller; with a notifier it is notified as "starting" exactly when it
\* is the first poll or the previous poll's status was not "starting" (a session
\* reporting the status "starting" counts as "starting" too); a session observed
\* running after such polls is returned as a successful result.
C8_StartingOnFirstStartingPoll ==
    /\ \A i \in 1..Len(observed) :
          Polls[i].ret = "None" =>
             /\ observed[i] = "starting"
             /\ ~(i = Len(observed) /\ pc = "returned")
             /\ on_status =>
                  (NotifiedAt(Polls[i].at) <=> (i = 1 \/ observed[i - 1] # "starting"))
             /\ \A k \in 1..Len(notified) :
                  notified[k].elapsed = Polls[i].at => notified[k].status = "starting"
    /\ (Len(observed) >= 2 /\ Polls[Len(observed) - 1].ret = "None"
          /\ Lower(Last(observed)) = "running") =>
             /\ pc = "returned"
             /\ Success(result)

C8_Witness ==
    /\ on_status
    /\ pc = "returned"
    /\ Len(observed) = 3
    /\ Polls[1].ret = "None"
    /\ Polls[2].ret = "None"
    /\ NotifiedStatuses = <<"starting", "running">>
    /\ Success(result)
    /\ result.session_url = "https://host/x"

\* C9 as claimed: a ready result's session URL is the matched session's
\* external endpoint when present, and the redirect URL of submit otherwise.
C9_ExternalElseRedirect ==
    (pc = "returned" /\ wait /\ workflow_type = SESSION /\ Lower(result.status) = "running") =>
        result.session_url =
            (IF matched.external_href \notin {None, ""} THEN matched.external_href
                                                         ELSE session_url)

\* C9 amended: a ready result's session URL is the matched session's external
\* endpoint when present (not None, not empty), otherwise the session's internal
\* URL when present, otherwise the redirect URL of submit.
C9_ExternalElseInternalElseRedirect ==
    (pc = "returned" /\ wait /\ workflow_type = SESSION /\ Lower(result.status) = "running") =>
        result.session_url =
            (IF matched.external_href \notin {None, ""} THEN matched.external_href
             ELSE IF matched.url \notin {None, ""} THEN matched.url
             ELSE session_url)

C9_Witness ==
    /\ wait
    /\ pc = "returned"
    /\ workflow_type = SESSION
    /\ Lower(result.status) = "running"
    /\ matched.external_href = ""
    /\ matched.url = "https://internal/x"
    /\ session_url = "https://redirect/x"
    /\ result.session_url = "https://internal/x"

\* C10: a client call that raises is the last client call of execute(): the
\* same error leaves execute(), no result exists, the failed poll is neither
\* observed nor notified, and nothing happens afterwards.
C10_ClientErrorPropagates ==
    /\ \A i \in 1..Len(calls) : calls[i].err # None => i = Len(calls)
    /\ (calls # <<>> /\ Last(calls).err # None) =>
          /\ pc = "raised"
          /\ exception = ClientError(Last(calls).err)
          /\ result = NoResult
          /\ Len(observed) = Len(calls) - 2 \/ (Len(calls) = 1 /\ observed = <<>>)
          /\ Len(calls) > 1 => ~NotifiedAt(Last(calls).at)
          /\ ~ENABLED Next
    /\ exception.type \in ClientErrors =>
          (calls # <<>> /\ Last(calls).err = exception.type)

C10_Witness ==
    /\ pc = "raised"
    /\ exception = ClientError("ConnectError")
    /\ Len(calls) = 4
    /\ Last(calls).op = "get_run_status"
    /\ Len(notified) = 2

-----------------------------------------------------------------------------
(* Properties of _run_tunnel *)

\* the positions of tlog that hold an event of one of the kinds
LogIndexes(kinds) == {i \in DOMAIN tlog : tlog[i].ev \in kinds}

\* the steps cleanup() begins its termination sequence with
TerminationBegun == LogIndexes({"SIGTERM", "lookup_failed"})

\* a child was spawned
Spawned == child # "none"

\* C11: once the tunnel child was spawned, a runner that exited after a SIGINT
\* has run the termination sequence on the child's group: no exit caused by
\* an interrupt leaves the spawned child never signalled.
C11_InterruptTerminatesTunnel ==
    (tpc = "exited" /\ interrupts > 0 /\ Spawned) => TerminationBegun # {}

\* C12: on every way out of _run_tunnel after the child was spawned, the
\* termination sequence was applied to the child's process group, or no
\* process of the group is left.
C12_EveryExitTerminatesGroup ==
    (tpc \in {"returned", "exited"} /\ frames = <<>> /\ Spawned) =>
        (terminations > 0 \/ ~GroupAlive)

\* C13: with cancel_after configured, whatever the interleaving of one SIGINT
\* and the auto-cancel path, the group receives SIGTERM at most once and
\* cancel_run is called at most once.
C13_TerminateAndCancelAtMostOnce ==
    (AutoCancel /\ interrupts <= 1) =>
        /\ Cardinality(LogIndexes({"SIGTERM"})) <= 1
        /\ Cardinality(LogIndexes({"cancel"})) <= 1

\* the events that end a termination sequence of one caller
TerminationEnded(by) ==
    {i \in LogIndexes({"wait_returned", "SIGKILL", "lookup_failed"}) :
        /\ tlog[i].by = by
        /\ tlog[i].ev = "lookup_failed" => tlog[i].cause = "SIGKILL"}

\* the runner is out of _run_tunnel for good
Completed == tpc \in {"returned", "exited"} /\ frames = <<>>

\* C14: with cancel_after configured, the tunnel established and no SIGINT,
\* cancel_run is never called twice and has been called exactly once when
\* _run_tunnel is over, whether the loop ended by the deadline, by the child
\* found dead, or by both at the same check.
C14_AutoCancelExactlyOnce ==
    (AutoCancel /\ established /\ interrupts = 0) =>
        /\ Cardinality(LogIndexes({"cancel"})) <= 1
        /\ Completed => Cardinality(LogIndexes({"cancel"})) = 1

C14_Witness ==
    /\ tpc = "exited"
    /\ interrupts = 0
    /\ \E i \in LogIndexes({"cleanup"}) :
          tlog[i].cause = "deadline" /\ tlog[i].leader = "zombie"
    /\ Cardinality(LogIndexes({"cancel"})) = 1

\* C15: on the auto-cancel path cancel_run is called only after the
\* termination sequence of that cleanup() is over, and cleanup() never begins
\* with the child still running before cancel_after seconds have passed since
\* the loop began.
C15_CancelAfterTerminationAfterDeadline ==
    /\ \A i \in LogIndexes({"cancel"}) :
          /\ tlog[i].by = "auto"
          /\ \E j \in TerminationEnded("auto") : j < i
    /\ \A i \in LogIndexes({"cleanup"}) :
          tlog[i].leader = "alive" => tlog[i].at - start_time >= cancel_after
    /\ \A i \in LogIndexes({"SIGTERM", "SIGKILL", "cancel"}) :
          (tlog[i].by = "auto" /\ tlog[i].at - start_time < cancel_after) =>
              \E j \in LogIndexes({"cleanup"}) : j < i /\ tlog[j].cause = "died"

C15_Witness ==
    /\ \E i \in LogIndexes({"cleanup"}) :
          /\ tlog[i].cause = "deadline"
          /\ tlog[i].leader = "alive"
          /\ \E j \in LogIndexes({"SIGKILL"}) :
                j > i /\ \E k \in LogIndexes({"cancel_ok"}) : k > j
    /\ tpc = "returned"

\* the SIGINTs that handle_sigint took
Handled == {i \in LogIndexes({"sigint"}) : tlog[i].cause = "handle_sigint"}

\* a handled SIGINT: cleanup() ran its termination sequence before the exit,
\* the exit status is 0, and every cancel_run call is one the auto-cancel path
\* made before the SIGINT
HandledInterruptExits ==
    \A i \in Handled :
        /\ \A j \in LogIndexes({"cancel"}) : j < i /\ tlog[j].by = "auto"
        /\ tpc = "exited" => (exit_status = "0" /\ TerminationEnded("sigint") # {})

\* C16 as stated: a handled SIGINT ends in the termination sequence and exit
\* status 0 with no cancel_run call by or after the handler, and a SIGINT
\* before the auto-cancel deadline means no cancel_run call at all.
C16_InterruptBeforeDeadlineNeverCancels ==
    /\ HandledInterruptExits
    /\ \A i \in Handled :
          (AutoCancel /\ tlog[i].at - start_time < cancel_after) =>
              LogIndexes({"cancel"}) = {}

\* C16 amended: a handled SIGINT ends in the termination sequence and exit
\* status 0 with no cancel_run call by or after the handler, and a SIGINT
\* taken while the wait loop (or the blocking wait) still runs means no
\* cancel_run call at all.
C16_InterruptInLoopNeverCancels ==
    /\ HandledInterruptExits
    /\ \A i \in Handled :
          tlog[i].tpc \in {"loop", "wait"} => LogIndexes({"cancel"}) = {}

C16_Witness ==
    /\ tpc = "exited"
    /\ exit_status = "0"
    /\ AutoCancel
    /\ \E i \in Handled : tlog[i].tpc = "loop" /\ tlog[i].at - start_time < cancel_after
    /\ \E j \in LogIndexes({"SIGKILL"}) : tlog[j].by = "sigint"

\* C17: a cleanup() that begins when no process of the group is left, or after
\* a termination sequence was completed, raises nothing and sends no signal
\* to a live process, so it leaves the processes as the first one left them.
C17_TerminationIdempotent ==
    /\ \A i \in DOMAIN tlog :
          (tlog[i].gone \/ tlog[i].nth > 0) =>
              /\ tlog[i].ev # "raised"
              /\ tlog[i].ev \in {"SIGTERM", "SIGKILL"} => ~tlog[i].live
    /\ \A k \in DOMAIN reported : reported[k] # "Failed to run workflow: ProcessLookupError"

C17_Witness ==
    /\ tpc = "exited"
    /\ exit_status = "0"
    /\ \E i \in LogIndexes({"SIGTERM"}) :
          tlog[i].nth > 0 /\ tlog[i].by = "sigint" /\ tlog[i].leader = "zombie"

\* C18: SIGKILL goes to the group only after SIGTERM was attempted and the
\* wait of 5 seconds ran out with the child still running: never first, and
\* never when the child exited within the wait.
C18_KillOnlyAfterGraceExpired ==
    \A i \in LogIndexes({"SIGKILL"}) :
        /\ tlog[i].leader = "alive"
        /\ i > 1 /\ tlog[i - 1].ev = "wait_timeout"
        /\ \E j \in TerminationBegun : j < i /\ tlog[j].by = tlog[i].by
        /\ \E j \in TerminationBegun : tlog[i].at - tlog[j].at = WaitTimeout

\* C19: with the helper binary missing nothing is spawned, signalled,
\* installed or cancelled; the error is reported and _run_tunnel returns.
C19_MissingHelperReported ==
    ~pw_available =>
        /\ child = "none" /\ ~sub_alive
        /\ tlog = <<>>
        /\ ~handler
        /\ frames = <<>>
        /\ interrupts = 0
        /\ tpc \in {"start", "returned", "exited"}
        /\ reported = IF tpc = "start" THEN <<>> ELSE <<"pw CLI not found">>
        /\ exit_status = IF tpc = "exited" THEN ExitStatus(result) ELSE None

C19_Witness ==
    /\ ~pw_available
    /\ tpc = "exited"
    /\ reported = <<"pw CLI not found">>

\* C20: a cancel_run that fails on the auto-cancel path is reported and goes
\* no further: _run_tunnel returns, the termination sequence was completed
\* before it and is not redone, the cancel is not retried, and the exit status
\* is the one of a cancel that succeeded.
C20_CancelFailureReported ==
    /\ \A i \in LogIndexes({"cancel_failed"}) :
          /\ tlog[i].by = "auto"
          /\ \E k \in DOMAIN reported :
                reported[k] = "Failed to cancel workflow: " \o tlog[i].cause
          /\ tpc \in {"returned", "exited"}
          /\ Cardinality(LogIndexes({"cancel"})) = 1
          /\ \E j \in TerminationEnded("auto") : j < i
          /\ \A j \in DOMAIN tlog : j > i => tlog[j].by # "auto"
    /\ (tpc = "exited" /\ LogIndexes({"cancel_failed", "cancel_ok"}) # {}) =>
          exit_status = ExitStatus(result)

C20_Witness ==
    /\ tpc = "exited"
    /\ interrupts = 0
    /\ exit_status = "0"
    /\ LogIndexes({"cancel_failed"}) # {}
    /\ LogIndexes({"SIGTERM"}) # {}

\* C21: with no cancel_after and no SIGINT, an established tunnel keeps
\* _run_tunnel blocked until the child has exited on its own: nothing is
\* signalled, cleanup() never runs, cancel_run is never called, and
\* _run_tunnel is left only with the child exited and waited for.
C21_BlocksUntilChildExits ==
    (cancel_after = 0 /\ established /\ interrupts = 0) =>
        /\ tlog = <<>>
        /\ frames = <<>>
        /\ terminations = 0
        /\ tpc \in {"wait", "returned", "exited"}
        /\ tpc # "wait" => child = "reaped"

C21_Witness ==
    /\ cancel_after = 0
    /\ established
    /\ interrupts = 0
    /\ tpc = "exited"
    /\ child = "reaped"
    /\ exit_status = "0"

\* "SSH tunnel failed to start: ..." was reported
FailedToStart == \E k \in DOMAIN reported : reported[k] = "SSH tunnel failed to start"

\* C22: when the grace sleep ends with the child exited, the failure is
\* reported and _run_tunnel returns without raising; then the tunnel is never
\* announced as established, no handler is installed, nothing is signalled and
\* cancel_run is never called, with or without cancel_after, and the runner
\* exits as it does without a tunnel. When the grace sleep ends with the child
\* running, the tunnel is established.
C22_GraceDecidesStartup ==
    [][/\ (tpc = "grace" /\ tnow' # tnow) =>
            IF child = "zombie"
            THEN /\ reported' = Append(reported, "SSH tunnel failed to start")
                 /\ tpc' = "returned"
                 /\ exit_status' = None
            ELSE /\ established'
                 /\ tpc' \in {"loop", "wait"}
                 /\ reported' = reported
       /\ FailedToStart' =>
            /\ ~established'
            /\ ~handler'
            /\ tlog' = <<>>
            /\ frames' = <<>>
            /\ tpc' \in {"returned", "exited"}
            /\ exit_status' \in {None, ExitStatus(result)}]_allvars

C22_Witness ==
    /\ FailedToStart
    /\ cancel_after # 0
    /\ ~established
    /\ tpc = "exited"
    /\ exit_status = "0"

-----------------------------------------------------------------------------
(* Properties of the backoff *)

\* the step that sleeps and computes the basis of the next iteration
Slept == pc = "sleep" /\ pc' = "poll"

\* C23: every duration slept between two polls, the first included, is at
\* most max_poll_interval, for every configuration and jitter draw.
C23_SleepAtMostMax ==
    \A k \in DOMAIN sleeps : sleeps[k] <= cfg.max_poll_interval

C23_Witness ==
    /\ cfg.initial_poll_interval > cfg.max_poll_interval
    /\ Len(sleeps) = 2
    /\ sleeps[1] = cfg.max_poll_interval
    /\ workflow_type = SESSION

C25_SleepWithinTenPercent ==
    [][Slept =>
          /\ Last(sleeps') >= (90 * interval) \div 100
          /\ Last(sleeps') <= (110 * interval) \div 100]_allvars

\* C25 amended: every slept duration is at most 110% of the basis of its
\* iteration and at least the smaller of 90% of the basis and
\* max_poll_interval: within 10% of the basis unless the ceiling applies.
C25_SleepWithinTenPercentOrCapped ==
    [][Slept =>
          /\ Last(sleeps') >= Min((90 * interval) \div 100, cfg.max_poll_interval)
          /\ Last(sleeps') <= (110 * interval) \div 100]_allvars

C25_Witness ==
    /\ cfg.initial_poll_interval > cfg.max_poll_interval
    /\ pc = "raised"
    /\ Len(sleeps) = 2
    /\ sleeps[1] < (90 * cfg.initial_poll_interval) \div 100

\* the basis after k sleeps of the sequence 5, 7.5, 11.25, ... capped at 60
RECURSIVE StatedBasis(_)
StatedBasis(k) == IF k = 0 THEN 500 ELSE Min((StatedBasis(k - 1) * 150) \div 100, 6000)

\* the constructor's defaults for the three intervals
DefaultIntervals ==
    /\ cfg.initial_poll_interval = DefaultInitialPollInterval
    /\ cfg.max_poll_interval = DefaultMaxPollInterval
    /\ cfg.backoff_factor = DefaultBackoffFactor

\* C26: the defaults are timeout 3600 s, initial interval 5 s, maximum
\* interval 60 s and backoff factor 1.5, and an executor with the default
\* intervals has the basis 5, 7.5, 11.25, ... growing by 1.5 up to 60.
C26_DefaultsAsStated ==
    /\ DefaultTimeout = 360000
    /\ DefaultInitialPollInterval = 500
    /\ DefaultBackoffFactor = 150
    /\ (DefaultIntervals /\ pc \in {"poll", "sleep"}) => interval = StatedBasis(Len(sleeps))
    /\ (DefaultIntervals /\ pc \in {"poll", "sleep"}) => DefaultMaxPollInterval = 6000

-----------------------------------------------------------------------------
(* Properties of execute(wait=False) and of the end of polling *)

\* C27: execute(wait=False) makes the submit call and nothing else: no status
\* or session query, no notification, no sleep, no ExecutionTimeout however
\* long the submit took; the result carries the run number, the status as
\* submitted and the redirect URL, and nothing follows.
C27_NoWaitSubmitsOnce ==
    ~wait =>
        /\ pc \in {"start", "returned", "raised"}
        /\ Len(calls) <= 1
        /\ \A i \in DOMAIN calls : calls[i].op = "submit_workflow"
        /\ observed = <<>> /\ notified = <<>> /\ sleeps = <<>> /\ iterations = 0
        /\ exception.type # "ExecutionTimeout"
        /\ pc = "returned" =>
              /\ Len(calls) = 1
              /\ result.run_number = run_number
              /\ result.workflow_type = workflow_type
              /\ result.status \in SubmitStatuses
              /\ result.session_url \in Redirects(workflow_type)
              /\ result.completed_at = None
              /\ result.error_message = None
              /\ ~ENABLED Next

C27_Witness ==
    /\ ~wait
    /\ pc = "returned"
    /\ now > cfg.timeout
    /\ result.status = "Running"
    /\ result.session_url = "https://redirect/x"

\* the statuses that end polling, after case folding
EndsPolling(type, status) ==
    Lower(status) \in (IF type = BATCH
                       THEN {"completed", "failed", "cancelled", "error"}
                       ELSE {"running", "failed", "cancelled", "error"})

-----------------------------------------------------------------------------
(* Properties of get_session_for_run *)

\* the places of the registry holding a session of the run: the run number
\* is the one looked up and the workflow name is absent or the one looked up
SessionsOfRun ==
    {i \in DOMAIN sessions :
        /\ sessions[i].workflow_run # NoWorkflowRun
        /\ sessions[i].workflow_run.number = run_number
        /\ sessions[i].workflow_run.workflow_name \in {None, WorkflowName}}

\* C29: get_session_for_run returns the first session of the registry whose
\* run number is the one looked up and whose workflow name is absent or the
\* one looked up, and None exactly when the registry holds no such session.
C29_FirstSessionOfRun ==
    lookup_pc = "done" =>
        IF SessionsOfRun = {}
        THEN found = NoSession
        ELSE /\ found # NoSession
             /\ found.id \in SessionsOfRun
             /\ \A i \in SessionsOfRun : found.id <= i
             /\ found = sessions[found.id]

C29_Witness ==
    /\ lookup_pc = "done"
    /\ Len(sessions) = 3
    /\ sessions[1].workflow_run = [number |-> 41, workflow_name |-> "other"]
    /\ sessions[2].workflow_run = [number |-> 41, workflow_name |-> None]
    /\ sessions[3].workflow_run = [number |-> 41, workflow_name |-> WorkflowName]
    /\ found.id = 2

-----------------------------------------------------------------------------
(* Properties of run_workflow *)

\* C30: a tunnel child exists only if a tunnel was requested, the workflow is
\* a session, execute() returned a successful result (status running) and a
\* session port was detected; never for a run that failed, was cancelled,
\* errored, timed out or was not waited for.
C30_TunnelOnlyForReadySession ==
    Spawned =>
        /\ tunnel
        /\ workflow_type = SESSION
        /\ pc = "returned"
        /\ Success(result)
        /\ Lower(result.status) = "running"
        /\ session_port # 0
        /\ exception = NoException
        /\ wait

\* C31: --tunnel with a batch workflow ends run_workflow with an error and
\* exit status 1 before the client is used: nothing is submitted, nothing is
\* polled, no tunnel child is spawned.
C31_TunnelForBatchRejected ==
    (tunnel /\ workflow_type # SESSION) =>
        /\ pc = "cli"
        /\ calls = <<>>
        /\ iterations = 0
        /\ observed = <<>>
        /\ result = NoResult
        /\ ~Spawned
        /\ tlog = <<>>
        /\ tpc \in {"idle", "exited"}
        /\ tpc = "exited" =>
              /\ exit_status = "1"
              /\ reported = <<"--tunnel can only be used with --type session">>

C31_Witness ==
    /\ tunnel
    /\ workflow_type = BATCH
    /\ tpc = "exited"
    /\ exit_status = "1"
    /\ calls = <<>>

-----------------------------------------------------------------------------
(* Termination *)

\* C32: every execute(wait=True) ends -- with a result, an ExecutionTimeout
\* or the error of a client call -- whatever the remote system answers, also
\* when no status is ever terminal and no session ever appears.
C32_ExecuteTerminates ==
    <>(\/ pc = "returned" /\ result # NoResult
       \/ pc = "raised" /\ exception.type \in {"ExecutionTimeout"} \cup ClientErrors)

C32_Witness ==
    /\ wait
    /\ workflow_type = SESSION
    /\ pc = "raised"
    /\ exception.type = "ExecutionTimeout"
    /\ Len(observed) = 4
    /\ \A k \in DOMAIN observed : observed[k] = "starting"
    /\ \A k \in DOMAIN sleeps : sleeps[k] > 0

\* C33: with cancel_after and an established tunnel the supervision ends:
\* the wait loop runs no longer than cancel_after seconds and is left as soon
\* as the child is observed dead; each termination sequence takes at most the
\* 5 seconds of its wait, also when the child ignores SIGTERM; so _run_tunnel
\* returns or the runner exits on SIGINT.
C33_SupervisionEnds ==
    /\ (AutoCancel /\ established) ~> Completed
    /\ [](tpc = "loop" => (child # "reaped" /\ tnow - start_time <= cancel_after))
    /\ []((AutoCancel /\ established) =>
            tnow - start_time <= cancel_after + (interrupts + 1) * WaitTimeout)

C33_Witness ==
    /\ AutoCancel
    /\ established
    /\ interrupts = 0
    /\ tpc = "returned"
    /\ \E i \in LogIndexes({"SIGKILL"}) : tlog[i].by = "auto" /\ tlog[i].leader = "alive"
    /\ tnow - start_time = cancel_after + WaitTimeout

====
